---- MODULE Spec2Model ----
(***************************************************************************)
(* The random walker segmentation of random_walker.py as a state machine.  *)
(*                                                                         *)
(* Arrays are flattened in C order: a sequence a with a[k + 1] the cell of  *)
(* flattened lattice index k.  A two-row integer array (the edge list) is  *)
(* a pair of sequences.  A sparse matrix is its dense image, a sequence of *)
(* rows.                                                                   *)
(*                                                                         *)
(* Seed values arrive as floats (main_gui.py:94 passes float32), so the    *)
(* caller's label array is kept in halves: the value v stands for v / 2,   *)
(* and -3 is the non-integer -1.5. Every array the code makes with          *)
(* astype(np.int) holds plain integers.                                    *)
(*                                                                         *)
(* Weights are floats in the code; here they are fixed-point integers.     *)
(* The linear solvers (scipy, pyamg) are libraries outside the repository: *)
(* the arg-max of the potentials they return is any index in 0 .. K-1 per  *)
(* unlabeled node, and cg's convergence flag is either outcome.            *)
(***************************************************************************)
EXTENDS Integers, Sequences, FiniteSets, TLC

VARIABLES
    pc,            \* position in the call
    inShape,       \* shape of the arrays the caller passes (data and labels)
    data,          \* the image, flattened
    callerLabels,  \* the caller's labels array, flattened, in halves
    mode,          \* 'bf', 'cg' or 'cg_mg'; "unread" until line 266 reads it
    copy,          \* the copy argument
    amg_loaded,    \* the module flag of lines 36-40 ("True" or "False");
                   \* "unread" until line 295 reads it
    labels,        \* the array the local name labels refers to
    aliased,       \* whether that array is the caller's own buffer
    edges,         \* the edge list handed to _make_laplacian_sparse
    weights,       \* the weights handed to _make_laplacian_sparse
    lap,           \* the assembled Laplacian
    cgInfo,        \* whether some cg solve stopped at its iteration cap
    output,        \* the returned array, flattened
    outShape,      \* the returned array's shape
    err            \* the exception raised, or "none"

vars == <<pc, inShape, data, callerLabels, mode, copy, amg_loaded, labels,
          aliased, edges, weights, lap, cgInfo, output, outShape, err>>

\* ---------------------------------------------------------------- bounds

\* Largest number of cells of an image given to random_walker.
MaxCells == 4
\* Largest grid dimension given to _make_edges_3d on its own.
MaxDim == 4
\* Largest node number and edge count of an edge list given to
\* _make_laplacian_sparse on its own.
MaxNode == 3
MaxEdges == 2

\* ------------------------------------------------------- numpy primitives

RECURSIVE Prod(_)
Prod(s) == IF s = <<>> THEN 1 ELSE Head(s) * Prod(Tail(s))

RECURSIVE SumSeq(_)
SumSeq(s) == IF s = <<>> THEN 0 ELSE Head(s) + SumSeq(Tail(s))

Abs(x) == IF x < 0 THEN -x ELSE x

SeqSet(s) == {s[k] : k \in 1..Len(s)}

\* ndarray.max(), defined on a non-empty array only.
MaxOf(s) == CHOOSE m \in SeqSet(s) : \A x \in SeqSet(s) : x <= m

\* np.arange(n)
arange(n) == [k \in 1..n |-> k - 1]

\* a[idx] for an integer index array idx
Take(a, idx) == [k \in 1..Len(idx) |-> a[idx[k] + 1]]

\* np.atleast_3d on a shape: (N,) -> (1, N, 1), (M, N) -> (M, N, 1)
atleast_3d(sh) ==
    CASE Len(sh) = 1 -> <<1, sh[1], 1>>
      [] Len(sh) = 2 -> <<sh[1], sh[2], 1>>
      [] OTHER -> sh

\* np.squeeze on a shape: every axis of length one is removed
squeeze(sh) == SelectSeq(sh, LAMBDA d : d # 1)

\* Coordinates of flattened index i in a C-ordered array of shape sh.
CoordX(i, sh) == i \div (sh[2] * sh[3])
CoordY(i, sh) == (i \div sh[3]) % sh[2]
CoordZ(i, sh) == i % sh[3]

\* Flattened indices, in ravel order, of the six slices the code takes.
idx_deep_lo(sh)  == SelectSeq(arange(Prod(sh)), LAMBDA i : CoordZ(i, sh) < sh[3] - 1)
idx_deep_hi(sh)  == SelectSeq(arange(Prod(sh)), LAMBDA i : CoordZ(i, sh) >= 1)
idx_right_lo(sh) == SelectSeq(arange(Prod(sh)), LAMBDA i : CoordY(i, sh) < sh[2] - 1)
idx_right_hi(sh) == SelectSeq(arange(Prod(sh)), LAMBDA i : CoordY(i, sh) >= 1)
idx_down_lo(sh)  == SelectSeq(arange(Prod(sh)), LAMBDA i : CoordX(i, sh) < sh[1] - 1)
idx_down_hi(sh)  == SelectSeq(arange(Prod(sh)), LAMBDA i : CoordX(i, sh) >= 1)

\* ------------------------------------------------------------- Laplacian

\* The slice of edges_right taken once more where edges_down was meant.
make_edges_3d_rightTwice(n_x, n_y, n_z) ==
    LET sh == <<n_x, n_y, n_z>>
        vertices == arange(n_x * n_y * n_z)
    IN  << Take(vertices, idx_deep_lo(sh)) \o Take(vertices, idx_right_lo(sh))
              \o Take(vertices, idx_right_lo(sh)),
           Take(vertices, idx_deep_hi(sh)) \o Take(vertices, idx_right_hi(sh))
              \o Take(vertices, idx_right_hi(sh)) >>

make_edges_3d(n_x, n_y, n_z) ==
    LET sh == <<n_x, n_y, n_z>>
        vertices == arange(n_x * n_y * n_z)
        edges_deep  == << Take(vertices, idx_deep_lo(sh)),
                          Take(vertices, idx_deep_hi(sh)) >>
        edges_right == << Take(vertices, idx_right_lo(sh)),
                          Take(vertices, idx_right_hi(sh)) >>
        edges_down  == << Take(vertices, idx_down_lo(sh)),
                          Take(vertices, idx_down_hi(sh)) >>
    IN  << edges_deep[1] \o edges_right[1] \o edges_down[1],
           edges_deep[2] \o edges_right[2] \o edges_down[2] >>

\* scipy.sparse.coo_matrix((D, (I, J)), shape=(n, n)) as the dense matrix it
\* stands for: entries given more than once are summed.  Row i, column j of
\* the matrix is M[i + 1][j + 1].
RECURSIVE CooSum(_, _, _, _, _, _)
CooSum(D, I, J, i, j, k) ==
    IF k = 0 THEN 0
    ELSE (IF I[k] = i /\ J[k] = j THEN D[k] ELSE 0) + CooSum(D, I, J, i, j, k - 1)

coo_matrix(D, I, J, n) ==
    [i \in 1..n |-> [j \in 1..n |-> CooSum(D, I, J, i - 1, j - 1, Len(D))]]

Neg(w) == [k \in 1..Len(w) |-> -w[k]]

\* connect taken as the row sums, their sign kept.
make_laplacian_sparse_keepSign(e, w) ==
    LET pixel_nb == MaxOf(e[1] \o e[2]) + 1
        diag == arange(pixel_nb)
        i_indices == e[1] \o e[2]
        j_indices == e[2] \o e[1]
        dat == Neg(w) \o Neg(w)
        lap0 == coo_matrix(dat, i_indices, j_indices, pixel_nb)
        connect == [i \in 1..pixel_nb |-> SumSeq(lap0[i])]
    IN  coo_matrix(dat \o connect, i_indices \o diag, j_indices \o diag, pixel_nb)

\* Defined when the edge list is not empty: edges.max() of an empty array
\* raises ValueError.
make_laplacian_sparse(e, w) ==
    LET pixel_nb == MaxOf(e[1] \o e[2]) + 1
        diag == arange(pixel_nb)
        i_indices == e[1] \o e[2]
        j_indices == e[2] \o e[1]
        dat == Neg(w) \o Neg(w)
        lap0 == coo_matrix(dat, i_indices, j_indices, pixel_nb)
        connect == [i \in 1..pixel_nb |-> -SumSeq(lap0[i])]
    IN  coo_matrix(dat \o connect, i_indices \o diag, j_indices \o diag, pixel_nb)

\* 8 * exp(-x), rounded, for the squared gradients the model's images have.
ExpNeg(x) == CASE x = 0 -> 8 [] x = 1 -> 3 [] OTHER -> 0

\* np.abs(data[lo] - data[hi]) along the three axes, concatenated.
compute_gradients_3d(dat, sh) ==
    LET diff(lo, hi) == [k \in 1..Len(lo) |-> Abs(dat[lo[k] + 1] - dat[hi[k] + 1])]
    IN  diff(idx_deep_lo(sh), idx_deep_hi(sh))
            \o diff(idx_right_lo(sh), idx_right_hi(sh))
            \o diff(idx_down_lo(sh), idx_down_hi(sh))

\* exp(-beta' * gradient^2) + eps in fixed point, eps being one unit and the
\* positive factor beta' = beta / (10 * data.std()) taken as one.  (An image
\* of zero standard deviation makes beta' infinite; the images of Init that
\* have an edge are not constant.)
compute_weights_3d(e, dat, sh) ==
    LET gradients == compute_gradients_3d(dat, sh)
    IN  [k \in 1..Len(gradients) |-> ExpNeg(gradients[k] * gradients[k]) + 1]

\* Columns of the two-row array e, and entries of w, where keep is TRUE.
Columns(keep) == SelectSeq(arange(Len(keep)), LAMBDA k : keep[k + 1])

\* np.searchsorted(np.unique(a), v): how many distinct values of a are
\* smaller than v.
searchsorted_unique(a, v) == Cardinality({u \in SeqSet(a) : u < v})

\* Lines 135-141 and, when an edge is left, 142-144; with no edge left
\* edges.max() raises ValueError at line 142 and the empty arrays are what
\* the function holds then.
trim_edges_weights(e, w, mask, sh) ==
    LET mask0 == Take(mask, idx_deep_lo(sh)) \o Take(mask, idx_right_lo(sh))
                    \o Take(mask, idx_down_lo(sh))
        mask1 == Take(mask, idx_deep_hi(sh)) \o Take(mask, idx_right_hi(sh))
                    \o Take(mask, idx_down_hi(sh))
        ind_mask == [k \in 1..Len(mask0) |-> mask0[k] /\ mask1[k]]
        cols == Columns(ind_mask)
        e1 == << Take(e[1], cols), Take(e[2], cols) >>
        w1 == Take(w, cols)
        order(v) == searchsorted_unique(e1[1] \o e1[2], v)
    IN  [edges   |-> << [k \in 1..Len(cols) |-> order(e1[1][k])],
                        [k \in 1..Len(cols) |-> order(e1[2][k])] >>,
         weights |-> w1]

\* ---------------------------------------------------------- random_walker

\* ndarray.astype(np.int) of a value kept in halves: truncation toward zero.
astype_int(v) == IF v >= 0 THEN v \div 2 ELSE -((-v) \div 2)

\* The cells next to cell i along one axis (the structuring element of
\* connectivity one that ndimage.binary_propagation uses by default).
Neighbours(i, sh) == {j \in 0..(Prod(sh) - 1) : 
    Abs(CoordX(i, sh) - CoordX(j, sh)) + Abs(CoordY(i, sh) - CoordY(j, sh))
        + Abs(CoordZ(i, sh) - CoordZ(j, sh)) = 1}

\* ndimage.binary_propagation(input, mask=mask) on sets of flattened
\* indices: input is dilated inside mask until nothing changes.
RECURSIVE binary_propagation(_, _, _)
binary_propagation(input, mask, sh) ==
    LET grown == input \cup {j \in mask : \E i \in input : j \in Neighbours(i, sh)}
    IN  IF grown = input THEN input ELSE binary_propagation(grown, mask, sh)

\* The propagation run without its mask, through pruned cells too.
prune_isolated_noMask(lab, sh) ==
    IF \E k \in 1..Len(lab) : lab[k] < 0
    THEN LET filled == binary_propagation({i \in 0..(Len(lab) - 1) : lab[i + 1] > 0},
                                          0..(Len(lab) - 1), sh)
         IN  [k \in 1..Len(lab) |->
                 IF (k - 1) \notin filled /\ lab[k] = 0 THEN -1 ELSE lab[k]]
    ELSE lab

\* Lines 250-255: unlabeled cells no seed reaches are marked -1.
prune_isolated(lab, sh) ==
    IF \E k \in 1..Len(lab) : lab[k] < 0
    THEN LET filled == binary_propagation({i \in 0..(Len(lab) - 1) : lab[i + 1] > 0},
                                          {i \in 0..(Len(lab) - 1) : lab[i + 1] >= 0}, sh)
         IN  [k \in 1..Len(lab) |->
                 IF (k - 1) \notin filled /\ lab[k] = 0 THEN -1 ELSE lab[k]]
    ELSE lab

\* labels[labels >= 0] = X: the comparison taken too wide, seeds included.
clean_labels_ar_geq(X, lab) ==
    LET cells == SelectSeq(arange(Len(lab)), LAMBDA i : lab[i + 1] >= 0)
        rank(i) == Cardinality({z \in SeqSet(cells) : z <= i})
    IN  [k \in 1..Len(lab) |->
            IF lab[k] >= 0 /\ X # <<>> THEN X[((rank(k - 1) - 1) % Len(X)) + 1]
            ELSE lab[k]]

\* labels[labels <= 0] = X: the comparison taken too wide, pruned cells
\* included.
clean_labels_ar_leq(X, lab) ==
    LET cells == SelectSeq(arange(Len(lab)), LAMBDA i : lab[i + 1] <= 0)
        rank(i) == Cardinality({z \in SeqSet(cells) : z <= i})
    IN  [k \in 1..Len(lab) |->
            IF lab[k] <= 0 /\ X # <<>> THEN X[((rank(k - 1) - 1) % Len(X)) + 1]
            ELSE lab[k]]

\* _clean_labels_ar: the k-th zero of labels, in flattened order, takes X[k].
clean_labels_ar(X, lab) ==
    LET zeros == SelectSeq(arange(Len(lab)), LAMBDA i : lab[i + 1] = 0)
        rank(i) == Cardinality({z \in SeqSet(zeros) : z <= i})
    IN  [k \in 1..Len(lab) |-> IF lab[k] = 0 THEN X[rank(k - 1)] ELSE lab[k]]

\* _buildAB, lines 118-125: the active labels and the index arrays that cut
\* the Laplacian into its blocks.
buildAB_indices(lab) ==
    LET active == SelectSeq(lab, LAMBDA v : v >= 0)
        indices == arange(Len(active))
    IN  [labels            |-> active,
         unlabeled_indices |-> SelectSeq(indices, LAMBDA i : active[i + 1] = 0),
         seeds_indices     |-> SelectSeq(indices, LAMBDA i : active[i + 1] > 0)]

\* The arg-max indices written without the offset of one.
resolve_noOffset(X, lab) == clean_labels_ar(X, lab)

\* Line 272 with _clean_labels_ar: the arg-max indices, offset by one to
\* label numbers, fill the unlabeled cells.
resolve(X, lab) == clean_labels_ar([k \in 1..Len(X) |-> X[k] + 1], lab)

\* The arg-max of an empty stack of potentials taken as zeros.
solve_emptyArgmax(md, amg, K, m) ==
    IF md = "cg_mg" /\ ~amg
    THEN {[err |-> "ImportError", X |-> <<>>, info |-> FALSE]}
    ELSE IF K = 0
    THEN {[err |-> "none", X |-> [k \in 1..m |-> 0], info |-> FALSE]}
    ELSE {[err |-> "none", X |-> x, info |-> i] :
              x \in [1..m -> 0..(K - 1)],
              i \in IF md = "bf" THEN {FALSE} ELSE BOOLEAN}

\* What the solver of the chosen mode hands back for K right-hand sides over
\* m unlabeled nodes: an exception, or the arg-max over the K potentials
\* (np.argmax(X, axis=0)) with cg's convergence flag, which the code drops
\* (cg(...)[0], lines 288 and 304).
solve(md, amg, K, m) ==
    IF md = "cg_mg" /\ ~amg
    THEN \* line 298
         {[err |-> "ImportError", X |-> <<>>, info |-> FALSE]}
    ELSE IF K = 0
    THEN \* no right-hand side: np.argmax of an empty array raises ValueError;
         \* in 'bf' mode the factorization of the singular matrix may raise first
         {[err |-> e, X |-> <<>>, info |-> FALSE] :
              e \in IF md = "bf" THEN {"ValueError", "RuntimeError"} ELSE {"ValueError"}}
    ELSE IF m = 0
    THEN \* an empty system: the library either raises or returns no potential
         {[err |-> "SolverError", X |-> <<>>, info |-> FALSE],
          [err |-> "none", X |-> <<>>, info |-> FALSE]}
    ELSE {[err |-> "none", X |-> x, info |-> i] :
              x \in [1..m -> 0..(K - 1)],
              i \in IF md = "bf" THEN {FALSE} ELSE BOOLEAN}

\* Seed values a caller may pass, in halves: -1.5, -1, 0, 1 and 2.
LabelVals == {-3, -2, 0, 2, 4}

\* Two- and three-dimensional shapes of at most MaxCells cells.
Shapes ==
    {sh \in ((1..MaxCells) \X (1..MaxCells))
              \cup ((1..MaxCells) \X (1..MaxCells) \X (1..MaxCells)) :
        Prod(sh) <= MaxCells}

\* Images of n cells: stripes along the flattened order.  With two cells or
\* more the image is not constant.
Images(n) == {[k \in 1..n |-> (k - 1) % 2]}

Init ==
    /\ pc = "called"
    /\ inShape \in Shapes
    /\ data \in Images(Prod(inShape))
    /\ callerLabels \in [1..Prod(inShape) -> LabelVals]
    /\ mode = "unread"
    /\ copy \in BOOLEAN
    /\ amg_loaded = "unread"
    /\ labels = callerLabels
    /\ aliased = TRUE
    /\ edges = << <<>>, <<>> >> /\ weights = <<>> /\ lap = <<>>
    /\ cgInfo = FALSE
    /\ output = <<>> /\ outShape = <<>> /\ err = "none"

\* The caller's buffer after a write to labels: written through when labels
\* is that buffer.
WriteThrough(isAlias, lab) ==
    IF isAlias THEN [k \in 1..Len(lab) |-> 2 * lab[k]] ELSE callerLabels

\* Lines 246-256.
Prepare ==
    /\ pc = "called"
    /\ LET afterCopy == IF copy THEN FALSE ELSE aliased  \* np.copy: a new array
           ints == [k \in 1..Len(labels) |-> astype_int(labels[k])]
           afterAstype == FALSE     \* astype always returns a new array
       IN  /\ labels' = prune_isolated(ints, atleast_3d(inShape))
           /\ aliased' = (afterCopy /\ afterAstype)
           /\ callerLabels' = WriteThrough(afterCopy /\ afterAstype, labels')
    /\ pc' = "prepared"
    /\ UNCHANGED <<inShape, data, mode, copy, amg_loaded, edges, weights, lap,
                   cgInfo, output, outShape, err>>

\* Lines 257-260 and _build_laplacian.
BuildLaplacian ==
    /\ pc = "prepared"
    /\ LET sh == atleast_3d(inShape)
           pruned == \E k \in 1..Len(labels) : labels[k] < 0
           mask == [k \in 1..Len(labels) |-> labels[k] >= 0]
           e0 == make_edges_3d(sh[1], sh[2], sh[3])
           w0 == compute_weights_3d(e0, data, sh)
           ew == IF pruned THEN trim_edges_weights(e0, w0, mask, sh)
                 ELSE [edges |-> e0, weights |-> w0]
       IN  /\ edges' = ew.edges
           /\ weights' = ew.weights
    /\ IF edges'[1] = <<>>
       THEN \* edges.max() of an empty array: line 142 with a mask, line 95
            \* without
            /\ pc' = "raised" /\ err' = "ValueError"
            /\ lap' = lap
       ELSE /\ pc' = "laplacian" /\ err' = err
            /\ lap' = make_laplacian_sparse(edges', weights')
    /\ UNCHANGED <<inShape, data, callerLabels, mode, copy, amg_loaded, labels,
                   aliased, cgInfo, output, outShape>>

\* Lines 261-274: _buildAB, the solver of the mode, _clean_labels_ar and the
\* reshape.
SolveAndResolve(md, amg) ==
    /\ pc = "laplacian"
    /\ mode' = md
    /\ amg_loaded' = IF md = "cg_mg" THEN (IF amg THEN "True" ELSE "False")
                     ELSE amg_loaded
    /\ LET ab == buildAB_indices(labels)
           inRange(idx) == \A k \in 1..Len(idx) : idx[k] < Len(lap)
       IN  IF ~inRange(ab.unlabeled_indices) \/ ~inRange(ab.seeds_indices)
           THEN \* lines 123-124: an index past the matrix
                /\ pc' = "raised" /\ err' = "IndexError"
                /\ UNCHANGED <<labels, callerLabels, cgInfo, output, outShape>>
           ELSE \E r \in solve(md, amg, MaxOf(ab.labels),
                               Len(ab.unlabeled_indices)) :
                    IF r.err # "none"
                    THEN /\ pc' = "raised" /\ err' = r.err
                         /\ UNCHANGED <<labels, callerLabels, cgInfo, output, outShape>>
                    ELSE /\ pc' = "returned" /\ err' = err
                         /\ cgInfo' = r.info
                         /\ labels' = resolve(r.X, labels)
                         /\ callerLabels' = WriteThrough(aliased, labels')
                         /\ output' = labels'
                         /\ outShape' = squeeze(atleast_3d(inShape))
    /\ UNCHANGED <<inShape, data, copy, aliased, edges, weights, lap>>

Next ==
    \/ Prepare
    \/ BuildLaplacian
    \/ \E md \in {"bf", "cg", "cg_mg"} :
           \E amg \in IF md = "cg_mg" THEN BOOLEAN ELSE {TRUE} :
               SolveAndResolve(md, amg)

Spec == Init /\ [][Next]_vars

\* ------------------------------------------- _make_edges_3d on its own

InitEdges ==
    /\ pc = "make_edges"
    /\ edges = << <<>>, <<>> >>
    /\ inShape \in (1..MaxDim) \X (1..MaxDim) \X (1..MaxDim)
    /\ data = <<>> /\ callerLabels = <<>>
    /\ mode = "bf" /\ copy = TRUE /\ amg_loaded = FALSE
    /\ labels = <<>> /\ aliased = FALSE
    /\ weights = <<>> /\ lap = <<>> /\ cgInfo = FALSE
    /\ output = <<>> /\ outShape = <<>> /\ err = "none"

MakeEdges ==
    /\ pc = "make_edges"
    /\ edges' = make_edges_3d(inShape[1], inShape[2], inShape[3])
    /\ pc' = "edges_made"
    /\ UNCHANGED <<inShape, data, callerLabels, mode, copy, amg_loaded, labels,
                   aliased, weights, lap, cgInfo, output, outShape, err>>

NextEdges == MakeEdges

SpecEdges == InitEdges /\ [][NextEdges]_vars

\* Two flattened indices are axis-adjacent: their coordinates differ by one
\* along exactly one axis.
AxisAdjacent(i, j, sh) ==
    Abs(CoordX(i, sh) - CoordX(j, sh)) + Abs(CoordY(i, sh) - CoordY(j, sh))
        + Abs(CoordZ(i, sh) - CoordZ(j, sh)) = 1

\* How many columns of the edge list e join i and j, in either direction.
EdgeCount(e, i, j) ==
    Cardinality({k \in 1..Len(e[1]) : {e[1][k], e[2][k]} = {i, j}})

\* C10: _make_edges_3d returns every unordered pair of axis-adjacent
\* flattened indices exactly once and no other pair, so it returns
\* n_x*n_y*(n_z-1) + n_x*(n_y-1)*n_z + (n_x-1)*n_y*n_z edges.
C10_EdgesExactlyAdjacentPairs ==
    pc = "edges_made" =>
        LET n == Prod(inShape)
            n_x == inShape[1]
            n_y == inShape[2]
            n_z == inShape[3]
        IN  /\ Len(edges[1]) = Len(edges[2])
            /\ \A k \in 1..Len(edges[1]) :
                   /\ edges[1][k] \in 0..(n - 1)
                   /\ edges[2][k] \in 0..(n - 1)
                   /\ AxisAdjacent(edges[1][k], edges[2][k], inShape)
            /\ \A i \in 0..(n - 1) : \A j \in 0..(n - 1) :
                   AxisAdjacent(i, j, inShape) => EdgeCount(edges, i, j) = 1
            /\ Len(edges[1]) = n_x * n_y * (n_z - 1) + n_x * (n_y - 1) * n_z
                                  + (n_x - 1) * n_y * n_z

\* A genuinely three-dimensional grid, and a grid with a flat axis, have
\* had their edges made.
C10_Witness ==
    /\ pc = "edges_made"
    /\ inShape[1] >= 2 /\ inShape[2] >= 2 /\ inShape[3] >= 2
    /\ Len(edges[1]) > 0

\* ------------------------------------ _make_laplacian_sparse on its own

\* Weights an edge may carry (fixed point, positive).
WeightVals == {1, 3}

\* The edge lists of at most MaxEdges edges over nodes 0 .. MaxNode in which
\* no edge joins a node to itself and no two edges join the same two nodes
\* (the edge lists _make_edges_3d and _trim_edges_weights produce are such).
EdgeLists ==
    UNION {
        {e \in [1..L -> 0..MaxNode] \X [1..L -> 0..MaxNode] :
            /\ \A k \in 1..L : e[1][k] # e[2][k]
            /\ \A k \in 1..L : \A m \in 1..L :
                   k # m => {e[1][k], e[2][k]} # {e[1][m], e[2][m]}}
        : L \in 0..MaxEdges}

InitLap ==
    /\ pc = "make_laplacian"
    /\ edges \in EdgeLists
    /\ weights \in [1..Len(edges[1]) -> WeightVals]
    /\ lap = <<>>
    /\ inShape = <<>> /\ data = <<>> /\ callerLabels = <<>>
    /\ mode = "bf" /\ copy = TRUE /\ amg_loaded = FALSE
    /\ labels = <<>> /\ aliased = FALSE /\ cgInfo = FALSE
    /\ output = <<>> /\ outShape = <<>> /\ err = "none"

MakeLaplacian ==
    /\ pc = "make_laplacian"
    /\ IF edges[1] = <<>>
       THEN /\ err' = "ValueError"
            /\ lap' = lap
       ELSE /\ err' = err
            /\ lap' = make_laplacian_sparse(edges, weights)
    /\ pc' = "laplacian_made"
    /\ UNCHANGED <<inShape, data, callerLabels, mode, copy, amg_loaded, labels,
                   aliased, edges, weights, cgInfo, output, outShape>>

NextLap == MakeLaplacian

SpecLap == InitLap /\ [][NextLap]_vars

\* Sum of the weights of the edges of e that touch node i.
RECURSIVE WeightAt(_, _, _, _)
WeightAt(e, w, i, k) ==
    IF k = 0 THEN 0
    ELSE (IF i \in {e[1][k], e[2][k]} THEN w[k] ELSE 0) + WeightAt(e, w, i, k - 1)

\* Sum of column j of the square matrix M.
ColSum(M, j) == SumSeq([i \in 1..Len(M) |-> M[i][j]])

\* C9: the matrix _make_laplacian_sparse assembles is symmetric, holds the
\* negated weight of each edge at both of its off-diagonal places and zero
\* where there is no edge, holds on the diagonal the sum of the weights of
\* the edges at that node, and so every row and column sums to zero.
C9_LaplacianRowsSumToZero ==
    (pc = "laplacian_made" /\ err = "none") =>
        LET n == MaxOf(edges[1] \o edges[2]) + 1
        IN  /\ Len(lap) = n
            /\ \A i \in 1..n : Len(lap[i]) = n
            /\ \A i \in 1..n : \A j \in 1..n : lap[i][j] = lap[j][i]
            /\ \A k \in 1..Len(edges[1]) :
                   /\ lap[edges[1][k] + 1][edges[2][k] + 1] = -weights[k]
                   /\ lap[edges[2][k] + 1][edges[1][k] + 1] = -weights[k]
            /\ \A i \in 1..n : \A j \in 1..n :
                   (i # j /\ EdgeCount(edges, i - 1, j - 1) = 0) => lap[i][j] = 0
            /\ \A i \in 1..n :
                   lap[i][i] = WeightAt(edges, weights, i - 1, Len(weights))
            /\ \A i \in 1..n : SumSeq(lap[i]) = 0
            /\ \A j \in 1..n : ColSum(lap, j) = 0

\* A Laplacian has been assembled in which some node carries two edges of
\* different weights.
C9_Witness ==
    /\ pc = "laplacian_made" /\ err = "none"
    /\ Len(weights) = 2
    /\ weights[1] # weights[2]
    /\ \E i \in 1..Len(lap) : lap[i][i] = weights[1] + weights[2]

\* ------------------------------------------------- claims on random_walker

\* The 3-D geometry of the call.
Grid == atleast_3d(inShape)

\* The cells of the caller's array, as flattened indices.
Cells == 0..(Len(callerLabels) - 1)

\* The caller's value at cell i, in halves.
In(i) == callerLabels[i + 1]

\* The largest seed label of the caller's array (0 when it has no seed).
SeedK ==
    LET ks == {In(i) \div 2 : i \in {c \in Cells : In(c) > 0}} \cup {0}
    IN  CHOOSE m \in ks : \A x \in ks : x <= m

\* Cell i is cut off: a set of non-negative cells holds it, holds no seed,
\* and has no axis-adjacent non-negative cell outside it, so no path of
\* non-pruned cells joins i to a seed.
CutOff(i) ==
    LET active == {c \in Cells : In(c) >= 0}
    IN  \E C \in SUBSET active :
            /\ i \in C
            /\ \A c \in C : In(c) = 0
            /\ \A c \in C : \A d \in active \ C : ~AxisAdjacent(c, d, Grid)

SomePruned == \E i \in Cells : In(i) < 0

\* C1: every cell whose input label is a positive integer has that same
\* label in the returned label map.
C1_SeedsKeepTheirLabel ==
    pc = "returned" =>
        /\ Len(output) = Len(callerLabels)
        /\ \A i \in Cells :
               (In(i) > 0 /\ In(i) % 2 = 0) => 2 * output[i + 1] = In(i)

\* A call with a pruned cell and seeds of both labels has returned, and an
\* unlabeled cell took label 2.
C1_Witness ==
    /\ pc = "returned"
    /\ \E i \in Cells : In(i) = 2
    /\ \E i \in Cells : In(i) = 4
    /\ \E i \in Cells : In(i) = -2
    /\ \E i \in Cells : In(i) = 0 /\ output[i + 1] = 2

\* C2: every cell that is -1 in the seed array is -1 in the returned label
\* map.
C2_PrunedStayPruned ==
    pc = "returned" =>
        \A i \in Cells : In(i) = -2 => output[i + 1] = -1

\* A call with a pruned cell has returned and labelled an unlabeled cell.
C2_Witness ==
    /\ pc = "returned"
    /\ \E i \in Cells : In(i) = -2
    /\ \E i \in Cells : In(i) = 0 /\ output[i + 1] >= 1

C4_RejectsBadSeeds ==
    ( \/ \A i \in Cells : In(i) <= 0
      \/ \E i \in Cells : In(i) % 2 # 0
      \/ \E i \in Cells : In(i) < 0 /\ In(i) # -2 )
        => pc # "returned"

\* C4 as amended: when the seed array has no positive entry the call raises
\* an exception and returns nothing: it never returns, it has raised when
\* it has ended, and at the solver, where such a call ends once the
\* Laplacian is built, a step is possible.
C4_NoSeedFails ==
    (\A i \in Cells : In(i) <= 0) =>
        \/ pc = "raised" /\ err \in {"ValueError", "RuntimeError", "ImportError"}
                         /\ output = <<>>
        \/ pc \in {"called", "prepared"}
        \/ pc = "laplacian" /\ ENABLED Next

\* A call without seed and without pruned cell has failed in the solver; the
\* Laplacian was built.
C4_Witness ==
    /\ pc = "raised"
    /\ err = "ValueError"
    /\ mode = "cg"
    /\ Len(callerLabels) >= 2
    /\ \A i \in Cells : In(i) = 0
    /\ lap # <<>>

\* C5 as claimed: after a call with copy=False the caller's labels array
\* holds the returned label map.
C5_CallerArrayOverwritten ==
    (pc = "returned" /\ ~copy) =>
        \A i \in Cells : In(i) = 2 * output[i + 1]

\* C6 as claimed: in 'cg' and 'cg_mg' mode a solve that stops at its
\* iteration cap short of tol makes the call fail instead of return.
C6_NonConvergenceSurfaced ==
    (mode \in {"cg", "cg_mg"} /\ cgInfo) => pc = "raised"

\* C7: when the seed array has pruned cells, the unlabeled cells that no
\* path of non-pruned cells joins to a seed are marked -1 before the
\* Laplacian is built, and only those; so every unlabeled cell left in the
\* system is joined to a seed, and the cut-off cells are -1 in the output.
C7_CutOffCellsMarked ==
    SomePruned =>
        /\ pc \in {"prepared", "laplacian"} =>
               \A i \in Cells :
                   /\ In(i) = 0 => (labels[i + 1] = -1 <=> CutOff(i))
                   /\ labels[i + 1] = 0 => (In(i) = 0 /\ ~CutOff(i))
        /\ pc = "returned" =>
               \A i \in Cells :
                   In(i) = 0 => (output[i + 1] = -1 <=> CutOff(i))

\* The Laplacian was built for a seed array in which pruned cells cut one
\* unlabeled cell off and leave another joined to a seed.
C7_Witness ==
    /\ pc = "laplacian"
    /\ \E i \in Cells : In(i) = 0 /\ labels[i + 1] = -1
    /\ \E i \in Cells : In(i) = 0 /\ labels[i + 1] = 0
    /\ \E i \in Cells : In(i) > 0

\* The rank of cell i among the active cells of labels, in flattened order.
ActiveRank(i) == Cardinality({c \in Cells : c < i /\ labels[c + 1] >= 0})

\* C8 as claimed: with an activity mask, the assembled matrix has one row
\* and column per active cell and the row of an active cell is its rank
\* among the active cells: two adjacent active cells are joined at their
\* ranks.
C8_OneRowPerActiveCell ==
    (pc = "laplacian" /\ \E i \in Cells : labels[i + 1] < 0) =>
        /\ Len(lap) = Cardinality({c \in Cells : labels[c + 1] >= 0})
        /\ \A i \in Cells : \A j \in Cells :
               (labels[i + 1] >= 0 /\ labels[j + 1] >= 0
                   /\ AxisAdjacent(i, j, Grid))
                   => lap[ActiveRank(i) + 1][ActiveRank(j) + 1] < 0

====
